---- MODULE Spec2Model ----
(***************************************************************************)
(* A model of the Future class of src/index.ts (the Bail class in the      *)
(* second half of the file is the same code under another name).           *)
(*                                                                         *)
(* One action is one synchronous turn of the host's event loop: a piece    *)
(* of user code (new Future, then, catch, a call of a resolve/reject       *)
(* capability) or one callback of the setTimeout(..., 0) queue.  The       *)
(* methods of the class are operators from a machine state s (a record of  *)
(* the variables) to the machine state after the call; the calls a method  *)
(* makes are nested operator applications, so that one action is the whole *)
(* turn, including every handler and user callback run inside it.          *)
(***************************************************************************)
EXTENDS Integers, Sequences, FiniteSets, TLC

\* Bounds of the model.
MaxRoots == 2        \* futures user code makes with new Future(resolver)
MaxThens == 2        \* calls of then/catch made by user code
MaxUserCalls == 2    \* calls of resolve/reject capabilities made by user code
MaxChain == 3        \* futures user code makes under SpecAdopt
MaxChainCalls == 3   \* calls of resolve/reject capabilities under SpecAdopt
MaxInputs == 2       \* futures user code makes under SpecAggregate
MaxAggregates == 1   \* calls of all/race made by user code
MaxAggCalls == 2     \* calls of resolve/reject capabilities under SpecAggregate
MaxAggThens == 1     \* calls of then made by user code under SpecAggregate
MaxThrowers == 2     \* futures user code makes under SpecConstruct
MaxThrowerCalls == 2 \* calls of resolve/reject capabilities under SpecConstruct

VARIABLES
    futures,     \* futures[f]: the fields status, value, handlers of future f
    timers,      \* the host's FIFO queue of setTimeout(cb, 0) callbacks
    registered,  \* every handler pair ever passed to addHandler, by handler id
    armed,       \* closure state of user callbacks: ids that still register
    roots,       \* futures made by user code with new Future(resolver)
    thens,       \* number of then/catch calls made by user code
    userCalls,   \* userCalls[f]: number of resolve/reject calls by user code
    results,     \* results[f]: the array results in the closure of all()
    built,       \* built[f]: what the resolver of future f closes over
    calls,       \* history: calls[f] is the resolve/reject calls on future f
    delivered,   \* history: delivered[f] is the handler calls future f made
    settled      \* history: settled[f] is how future f left PENDING

vars ==
    <<futures, timers, registered, armed, roots, thens, userCalls, results,
      built, calls, delivered, settled>>

----------------------------------------------------------------------------
\* STATUSES (src/index.ts:6-10)
PENDING == "PENDING"
FULFILLED == "FULFILLED"
REJECTED == "REJECTED"
STATUSES == {PENDING, FULFILLED, REJECTED}

\* JavaScript values: plain values, references to futures, undefined, and
\* the TypeError raised by calling a callback that was not supplied.
Plain(n) == [t |-> "plain", v |-> n]
FutureRef(f) == [t |-> "future", v |-> f]
Undefined == [t |-> "undefined", v |-> 0]
TypeError == [t |-> "TypeError", v |-> 0]
\* The array results of the call of all() that made future f: an object,
\* passed by reference.
ArrayRef(f) == [t |-> "array", v |-> f]

\* isThenable that recognises no value.
isThenableNever(val) == FALSE

\* isThenable: val instanceof Future
isThenable(val) == val.t = "future"

\* Callbacks a caller can pass to then/catch.
NoCallback == [k |-> "none", x |-> Undefined, f |-> 0]        \* undefined / null
Returns(x) == [k |-> "return", x |-> x, f |-> 0]              \* v => x
Throws(x) == [k |-> "throw", x |-> x, f |-> 0]                \* v => { throw x }
\* v => { if (first) { first = false; f.then(() => v) }; return x }
Registers(f, x) == [k |-> "register", x |-> x, f |-> f]
\* this.resolve / this.reject of future f, as passed by updateResult
ResolveOf(f) == [k |-> "resolve", x |-> Undefined, f |-> f]
RejectOf(f) == [k |-> "reject", x |-> Undefined, f |-> f]
\* The callback all() passes to then for the aggregate f (lines 21-27)
PushFor(f) == [k |-> "push", x |-> Undefined, f |-> f]

\* The machine state handed to the operators below, at the start of a turn.
\* The fields called and added are facts of the running turn only: the
\* futures resolve/reject was called on while PENDING, and the handlers
\* registered, since the turn began.
cur ==
    [fut |-> futures, timers |-> timers, registered |-> registered,
     armed |-> armed, roots |-> roots, thens |-> thens,
     userCalls |-> userCalls, results |-> results, built |-> built,
     calls |-> calls, delivered |-> delivered,
     settled |-> settled, called |-> {}, added |-> {}]

----------------------------------------------------------------------------
\* What is kept of a resolver after the constructor has run it: the array
\* futuresArr that the callbacks of all() and race() close over, and, as
\* history, the value the resolver threw (undefined if it returned).
Built(resolver) ==
    [k |-> resolver.k,
     futuresArr |-> IF resolver.k \in {"all", "race"} THEN resolver.futuresArr
                    ELSE <<>>,
     throws |-> IF resolver.k = "user" THEN resolver.throws ELSE Undefined]

RECURSIVE constructor(_, _)
RECURSIVE runResolver(_, _, _)
RECURSIVE addHandler(_, _, _)
RECURSIVE executeHandlers(_, _)
RECURSIVE forEach(_, _, _, _)
RECURSIVE deliver(_, _, _)
RECURSIVE onFullfill(_, _, _)
RECURSIVE onReject(_, _, _)
RECURSIVE invoke(_, _, _, _)
RECURSIVE then(_, _, _, _)
RECURSIVE allResolver(_, _, _, _)
RECURSIVE raceResolver(_, _, _, _)

\* updateResult without setTimeout: the settlement runs inside the call.
updateResultInline(s, f, value, status) ==
    LET s1 == [s EXCEPT
                  !.calls[f] = Append(@, [value |-> value, status |-> status]),
                  !.called = IF s.fut[f].status = PENDING THEN @ \cup {f} ELSE @]
    IN  IF s1.fut[f].status # PENDING
        THEN s1
        ELSE IF isThenable(value)
             THEN then(s1, value.v, ResolveOf(f), RejectOf(f))
             ELSE executeHandlers(
                      [s1 EXCEPT !.fut[f].value = value,
                                 !.fut[f].status = status,
                                 !.settled[f] = IF f \in s1.called
                                                THEN "in the turn of a call"
                                                ELSE "in a later turn"], f)

\* updateResult: only schedules the settlement with setTimeout(..., 0).
updateResult(s, f, value, status) ==
    [s EXCEPT
        !.timers = Append(@, [f |-> f, value |-> value, status |-> status]),
        !.calls[f] = Append(@, [value |-> value, status |-> status]),
        !.called = IF s.fut[f].status = PENDING THEN @ \cup {f} ELSE @]

resolve(s, f, value) == updateResult(s, f, value, FULFILLED)

reject(s, f, error) == updateResult(s, f, error, REJECTED)

\* A user callback cb called with arg from handler h: the state after the
\* call, and what the call returned or threw.
invoke(s, cb, arg, h) ==
    CASE cb.k = "none" -> [s |-> s, thrown |-> TRUE, val |-> TypeError]
      [] cb.k = "return" -> [s |-> s, thrown |-> FALSE, val |-> cb.x]
      [] cb.k = "throw" -> [s |-> s, thrown |-> TRUE, val |-> cb.x]
      [] cb.k = "resolve" ->
            [s |-> resolve(s, cb.f, arg), thrown |-> FALSE, val |-> Undefined]
      [] cb.k = "reject" ->
            [s |-> reject(s, cb.f, arg), thrown |-> FALSE, val |-> Undefined]
      [] cb.k = "push" ->
            LET n == Len(s.built[cb.f].futuresArr)
                s1 == [s EXCEPT !.results[cb.f] = Append(@, arg)]
            IN  [s |-> IF Len(s1.results[cb.f]) = n
                       THEN resolve(s1, cb.f, ArrayRef(cb.f))
                       ELSE s1,
                 thrown |-> FALSE, val |-> Undefined]
      [] cb.k = "register" ->
            IF h \in s.armed
            THEN [s |-> then([s EXCEPT !.armed = @ \ {h}], cb.f,
                             Returns(arg), NoCallback),
                  thrown |-> FALSE, val |-> cb.x]
            ELSE [s |-> s, thrown |-> FALSE, val |-> cb.x]

\* onFullfill whose catch branch hands the error to res instead of rej.
onFullfillResolvesError(s, h, value) ==
    LET hd == s.registered[h]
    IN  IF hd.onFulfill.k = "none"
        THEN resolve(s, hd.child, value)
        ELSE LET r == invoke(s, hd.onFulfill, value, h)
             IN  resolve(r.s, hd.child, r.val)

\* handler.onFullfill of the handler pair then() builds (lines 136-146)
onFullfill(s, h, value) ==
    LET hd == s.registered[h]
    IN  IF hd.onFulfill.k = "none"
        THEN resolve(s, hd.child, value)
        ELSE LET r == invoke(s, hd.onFulfill, value, h)
             IN  IF r.thrown
                 THEN reject(r.s, hd.child, r.val)
                 ELSE resolve(r.s, hd.child, r.val)

\* onReject that fulfils the child with what the callback returns.
onRejectRecovers(s, h, value) ==
    LET hd == s.registered[h]
        s1 == IF hd.onReject.k = "none" THEN reject(s, hd.child, value) ELSE s
        r == invoke(s1, hd.onReject, value, h)
    IN  IF r.thrown
        THEN reject(r.s, hd.child, r.val)
        ELSE resolve(r.s, hd.child, r.val)

\* onReject without the pass-through of line 149.
onRejectNoPassThrough(s, h, value) ==
    LET hd == s.registered[h]
        r == invoke(s, hd.onReject, value, h)
    IN  reject(r.s, hd.child, r.val)

\* handler.onReject of the handler pair then() builds (lines 147-157):
\* the branch for a missing onReject does not return.
onReject(s, h, value) ==
    LET hd == s.registered[h]
        s1 == IF hd.onReject.k = "none" THEN reject(s, hd.child, value) ELSE s
        r == invoke(s1, hd.onReject, value, h)
    IN  IF r.thrown
        THEN reject(r.s, hd.child, r.val)
        ELSE reject(r.s, hd.child, r.val)

\* The callback executeHandlers passes to forEach (lines 115-123).
\* (delivered is the history of these calls.)
deliver(s, f, h) ==
    LET s1 == [s EXCEPT !.delivered[f] =
                   Append(@, [h |-> h, status |-> s.fut[f].status,
                              arg |-> s.fut[f].value,
                              sameTurn |-> h \in s.added,
                              afterCall |-> f \in s.called])]
    IN  IF s1.fut[f].status = FULFILLED
        THEN onFullfill(s1, h, s1.fut[f].value)
        ELSE onReject(s1, h, s1.fut[f].value)

\* Array.prototype.forEach over arr, the array this.handlers named when the
\* loop began: its length is read once, so elements pushed during the loop
\* are not visited by this loop.
forEach(s, f, arr, k) ==
    IF k > Len(arr) THEN s
    ELSE forEach(deliver(s, f, arr[k]), f, arr, k + 1)

\* executeHandlers without the check of lines 110-112.
executeHandlersUnchecked(s, f) ==
    LET s1 == forEach(s, f, s.fut[f].handlers, 1)
    IN  [s1 EXCEPT !.fut[f].handlers = <<>>]

\* executeHandlers that leaves the array handlers as it is (no line 125).
executeHandlersKeepsQueue(s, f) ==
    IF s.fut[f].status = PENDING
    THEN s
    ELSE forEach(s, f, s.fut[f].handlers, 1)

executeHandlers(s, f) ==
    IF s.fut[f].status = PENDING
    THEN s
    ELSE LET s1 == forEach(s, f, s.fut[f].handlers, 1)
         IN  [s1 EXCEPT !.fut[f].handlers = <<>>]

\* addHandler that only queues the handler, without attempting delivery.
addHandlerNoDelivery(s, f, handler) ==
    LET h == Len(s.registered) + 1
    IN  [s EXCEPT !.registered = Append(@, handler),
                  !.added = @ \cup {h},
                  !.armed = IF handler.onFulfill.k = "register"
                               \/ handler.onReject.k = "register"
                            THEN @ \cup {h} ELSE @,
                  !.fut[f].handlers = Append(@, h)]

\* addHandler that puts the handler at the front of the queue.
addHandlerUnshift(s, f, handler) ==
    LET h == Len(s.registered) + 1
        s1 == [s EXCEPT !.registered = Append(@, handler),
                        !.added = @ \cup {h},
                        !.armed = IF handler.onFulfill.k = "register"
                                     \/ handler.onReject.k = "register"
                                  THEN @ \cup {h} ELSE @,
                        !.fut[f].handlers = <<h>> \o @]
    IN  executeHandlers(s1, f)

\* addHandler: handler ids are the positions of the table registered.
addHandler(s, f, handler) ==
    LET h == Len(s.registered) + 1
        s1 == [s EXCEPT !.registered = Append(@, handler),
                        !.added = @ \cup {h},
                        !.armed = IF handler.onFulfill.k = "register"
                                     \/ handler.onReject.k = "register"
                                  THEN @ \cup {h} ELSE @,
                        !.fut[f].handlers = Append(@, h)]
    IN  executeHandlers(s1, f)

\* The resolver function run by the constructor for the new future id.
\*   "then": the closure of then() (lines 134-159);
\*   "user": user code that makes the calls of resolver.calls and then
\*           throws resolver.throws, unless that is Undefined.
runResolver(s, id, resolver) ==
    CASE resolver.k = "then" ->
            [s |-> addHandler(s, resolver.parent,
                     [parent |-> resolver.parent, child |-> id,
                      onFulfill |-> resolver.onFulfill,
                      onReject |-> resolver.onReject,
                      pending |-> s.fut[resolver.parent].status = PENDING]),
             thrown |-> FALSE, val |-> Undefined]
      [] resolver.k = "user" ->
            LET s1 == IF resolver.calls = <<>> THEN s
                      ELSE updateResult(s, id, resolver.calls[1].value,
                                        resolver.calls[1].status)
            IN  [s |-> s1, thrown |-> resolver.throws # Undefined,
                 val |-> resolver.throws]
      [] resolver.k = "all" ->
            [s |-> allResolver(s, id, resolver.futuresArr, 1),
             thrown |-> FALSE, val |-> Undefined]
      [] resolver.k = "race" ->
            [s |-> raceResolver(s, id, resolver.futuresArr, 1),
             thrown |-> FALSE, val |-> Undefined]

\* The constructor without the catch of lines 52-54: the throw of the
\* resolver is dropped.
constructorNoCatch(s, resolver) ==
    LET id == Len(s.fut) + 1
    IN  runResolver([s EXCEPT
                        !.fut = Append(@, [status |-> PENDING,
                                           value |-> Undefined,
                                           handlers |-> <<>>]),
                        !.userCalls = Append(@, 0),
                        !.results = Append(@, <<>>),
                        !.built = Append(@, Built(resolver)),
                        !.calls = Append(@, <<>>),
                        !.delivered = Append(@, <<>>),
                        !.settled = Append(@, "no")],
                    id, resolver).s

constructor(s, resolver) ==
    LET id == Len(s.fut) + 1
        s1 == [s EXCEPT !.fut = Append(@, [status |-> PENDING,
                                           value |-> Undefined,
                                           handlers |-> <<>>]),
                        !.calls = Append(@, <<>>),
                        !.userCalls = Append(@, 0),
                        !.results = Append(@, <<>>),
                        !.built = Append(@, Built(resolver)),
                        !.delivered = Append(@, <<>>),
                        !.settled = Append(@, "no")]
        r == runResolver(s1, id, resolver)
    IN  IF r.thrown THEN reject(r.s, id, r.val) ELSE r.s

then(s, f, onFulfill, onRejectCb) ==
    constructor(s, [k |-> "then", parent |-> f, onFulfill |-> onFulfill,
                    onReject |-> onRejectCb])

\* catch(onReject) is then(null, onReject)
catch(s, f, onRejectCb) == then(s, f, NoCallback, onRejectCb)

\* The resolver of all() that hands an empty array results to res at once.
RECURSIVE allResolverEmptyFulfils(_, _, _, _)
allResolverEmptyFulfils(s, id, futuresArr, k) ==
    IF k > Len(futuresArr)
    THEN IF futuresArr = <<>> THEN resolve(s, id, ArrayRef(id)) ELSE s
    ELSE LET child == Len(s.fut) + 1
             s1 == then(s, futuresArr[k], PushFor(id), NoCallback)
         IN  allResolverEmptyFulfils(catch(s1, child, RejectOf(id)), id,
                                     futuresArr, k + 1)

\* The resolver of all() for the aggregate id (lines 18-31), from the k-th
\* element of futuresArr on: future.then(push).catch(err => rej(err)).
allResolver(s, id, futuresArr, k) ==
    IF k > Len(futuresArr) THEN s
    ELSE LET child == Len(s.fut) + 1
             s1 == then(s, futuresArr[k], PushFor(id), NoCallback)
         IN  allResolver(catch(s1, child, RejectOf(id)), id, futuresArr, k + 1)

all(s, futuresArr) == constructor(s, [k |-> "all", futuresArr |-> futuresArr])

\* The resolver of race() for the aggregate id (lines 35-42), from the k-th
\* element of futuresArr on: future.then(value => res(value)).catch(...).
raceResolver(s, id, futuresArr, k) ==
    IF k > Len(futuresArr) THEN s
    ELSE LET child == Len(s.fut) + 1
             s1 == then(s, futuresArr[k], ResolveOf(id), NoCallback)
         IN  raceResolver(catch(s1, child, RejectOf(id)), id, futuresArr, k + 1)

race(s, futuresArr) == constructor(s, [k |-> "race", futuresArr |-> futuresArr])

\* The setTimeout callback that adopts a thenable only for resolve: a
\* thenable passed to reject is stored as the reason.
updateResultTimeoutStoresReason(s, t) ==
    IF s.fut[t.f].status # PENDING
    THEN s
    ELSE IF isThenable(t.value) /\ t.status = FULFILLED
         THEN then(s, t.value.v, ResolveOf(t.f), RejectOf(t.f))
         ELSE executeHandlers(
                  [s EXCEPT !.fut[t.f].value = t.value,
                            !.fut[t.f].status = t.status,
                            !.settled[t.f] = IF t.f \in s.called
                                             THEN "in the turn of a call"
                                             ELSE "in a later turn"], t.f)

\* The setTimeout callback that rejects a future settled with itself.
updateResultTimeoutRejectsSelf(s, t) ==
    IF s.fut[t.f].status # PENDING
    THEN s
    ELSE IF isThenable(t.value) /\ t.value.v # t.f
         THEN then(s, t.value.v, ResolveOf(t.f), RejectOf(t.f))
         ELSE executeHandlers(
                  [s EXCEPT !.fut[t.f].value = IF isThenable(t.value)
                                               THEN TypeError ELSE t.value,
                            !.fut[t.f].status = IF isThenable(t.value)
                                                THEN REJECTED ELSE t.status,
                            !.settled[t.f] = IF t.f \in s.called
                                             THEN "in the turn of a call"
                                             ELSE "in a later turn"], t.f)

\* The setTimeout callback without the check of lines 78-80.
updateResultTimeoutUnguarded(s, t) ==
    IF isThenable(t.value)
    THEN then(s, t.value.v, ResolveOf(t.f), RejectOf(t.f))
    ELSE executeHandlers(
             [s EXCEPT !.fut[t.f].value = t.value,
                       !.fut[t.f].status = t.status,
                       !.settled[t.f] = "in a later turn"], t.f)

\* The callback updateResult hands to setTimeout (lines 76-93), for the
\* queued call t.
updateResultTimeout(s, t) ==
    IF s.fut[t.f].status # PENDING
    THEN s
    ELSE IF isThenable(t.value)
         THEN then(s, t.value.v, ResolveOf(t.f), RejectOf(t.f))
         ELSE executeHandlers(
                  [s EXCEPT !.fut[t.f].value = t.value,
                            !.fut[t.f].status = t.status,
                            !.settled[t.f] = IF t.f \in s.called
                                             THEN "in the turn of a call"
                                             ELSE "in a later turn"], t.f)

----------------------------------------------------------------------------
\* The state after a turn that took the machine to s.
Commit(s) ==
    /\ futures' = s.fut
    /\ timers' = s.timers
    /\ registered' = s.registered
    /\ armed' = s.armed
    /\ roots' = s.roots
    /\ thens' = s.thens
    /\ userCalls' = s.userCalls
    /\ results' = s.results
    /\ built' = s.built
    /\ calls' = s.calls
    /\ delivered' = s.delivered
    /\ settled' = s.settled

Ids == 1..Len(futures)

\* The plain value user code settles with is the number of the call: plain
\* values are opaque to the class, so distinct calls carry distinct values.
RECURSIVE Sum(_)
Sum(seq) == IF seq = <<>> THEN 0 ELSE Head(seq) + Sum(Tail(seq))
UserCalls == Sum(userCalls)
NextPlain == Plain(UserCalls + 1)

\* What the callbacks of user code return or throw.
Returned == Plain(MaxUserCalls + 1)
Thrown == Plain(MaxUserCalls + 2)

\* The resolvers of user code under Spec: they keep the capabilities for
\* later calls, make at most one synchronous call of resolve, and return.
UserResolvers ==
    {[k |-> "user", calls |-> c, throws |-> e] :
        c \in {<<>>, <<[status |-> FULFILLED, value |-> NextPlain]>>},
        e \in {Undefined}}

Init ==
    /\ futures = <<>>
    /\ timers = <<>>
    /\ registered = <<>>
    /\ armed = {}
    /\ roots = {}
    /\ thens = 0
    /\ userCalls = <<>>
    /\ results = <<>>
    /\ built = <<>>
    /\ calls = <<>>
    /\ delivered = <<>>
    /\ settled = <<>>

\* new Future(resolver) in user code; the capabilities stay with the user.
NewFuture ==
    \E resolver \in UserResolvers :
        /\ Cardinality(roots) < MaxRoots
        /\ UserCalls + Len(resolver.calls) <= MaxUserCalls
        /\ Commit([constructor(cur, resolver) EXCEPT
                      !.roots = @ \cup {Len(futures) + 1},
                      !.userCalls[Len(futures) + 1] = Len(resolver.calls)])

\* User code (a timer, an I/O callback) calls the resolve capability.
Resolve ==
    \E f \in roots :
        /\ UserCalls < MaxUserCalls
        /\ Commit([resolve(cur, f, NextPlain) EXCEPT !.userCalls[f] = @ + 1])

\* User code calls the reject capability.
Reject ==
    \E f \in roots :
        /\ UserCalls < MaxUserCalls
        /\ Commit([reject(cur, f, NextPlain) EXCEPT !.userCalls[f] = @ + 1])

\* The arguments user code passes to f.then: one callback, or both.
ThenArgs(f) ==
    {<<onFulfill, NoCallback>> :
        onFulfill \in {NoCallback, Returns(Returned), Throws(Thrown),
                       Registers(f, Returned)}
                      \cup {Returns(FutureRef(g)) : g \in roots}}
        \cup {<<Returns(Returned), Returns(Returned)>>}

\* The argument user code passes to f.catch.
CatchArgs(f) ==
    {Returns(Returned), Throws(Thrown)} \cup {Returns(FutureRef(g)) : g \in roots}

\* f.then(onFulfill, onReject) in user code.
Then ==
    \E f \in Ids :
      \E args \in ThenArgs(f) :
        /\ thens < MaxThens
        /\ Commit([then(cur, f, args[1], args[2]) EXCEPT !.thens = @ + 1])

\* f.catch(onReject) in user code.
Catch ==
    \E f \in Ids :
      \E onRejectCb \in CatchArgs(f) :
        /\ thens < MaxThens
        /\ Commit([catch(cur, f, onRejectCb) EXCEPT !.thens = @ + 1])

\* The host runs the oldest setTimeout callback.
RunTimer ==
    /\ timers # <<>>
    /\ Commit(updateResultTimeout([cur EXCEPT !.timers = Tail(@)], Head(timers)))

Next ==
    \/ NewFuture
    \/ Resolve
    \/ Reject
    \/ Then
    \/ Catch
    \/ RunTimer

Spec == Init /\ [][Next]_vars

----------------------------------------------------------------------------
\* Aggregates: user code makes futures, passes them to all() or race(),
\* calls their capabilities with plain values and registers handlers.
Aggregates == {f \in Ids : built[f].k \in {"all", "race"}}

\* The array user code passes to all() and race(): its futures, in the
\* order it made them.
RECURSIVE InOrder(_)
InOrder(S) ==
    IF S = {} THEN <<>>
    ELSE LET least == CHOOSE i \in S : \A j \in S : i <= j
         IN  <<least>> \o InOrder(S \ {least})

AggNew ==
    /\ Cardinality(roots) < MaxInputs
    /\ Commit([constructor(cur, [k |-> "user", calls |-> <<>>,
                                 throws |-> Undefined])
                  EXCEPT !.roots = @ \cup {Len(futures) + 1}])

AggAll ==
    /\ Cardinality(Aggregates) < MaxAggregates
    /\ Commit(all(cur, InOrder(roots)))

AggRace ==
    /\ Cardinality(Aggregates) < MaxAggregates
    /\ Commit(race(cur, InOrder(roots)))

AggResolve ==
    \E f \in roots :
        /\ UserCalls < MaxAggCalls
        /\ Commit([resolve(cur, f, NextPlain) EXCEPT !.userCalls[f] = @ + 1])

AggReject ==
    \E f \in roots :
        /\ UserCalls < MaxAggCalls
        /\ Commit([reject(cur, f, NextPlain) EXCEPT !.userCalls[f] = @ + 1])

\* f.then(...) in user code, on one of its futures or on an aggregate: with
\* a callback that registers a further handler on f, or with two callbacks
\* that return.
AggThen ==
    \E f \in roots \cup Aggregates :
      \E args \in {<<Registers(f, Returned), NoCallback>>,
                    <<Returns(Returned), Returns(Returned)>>} :
        /\ thens < MaxAggThens
        /\ Commit([then(cur, f, args[1], args[2]) EXCEPT !.thens = @ + 1])

NextAggregate ==
    \/ AggNew
    \/ AggAll
    \/ AggRace
    \/ AggResolve
    \/ AggReject
    \/ AggThen
    \/ RunTimer

SpecAggregate == Init /\ [][NextAggregate]_vars

----------------------------------------------------------------------------
\* Resolvers that throw: user code makes futures whose resolver makes at
\* most one synchronous call of a capability and then returns or throws.
ThrowingResolvers ==
    {[k |-> "user", calls |-> c, throws |-> e] :
        c \in {<<>>} \cup {<<[status |-> st, value |-> NextPlain]>> :
                              st \in {FULFILLED, REJECTED}},
        e \in {Undefined, Thrown}}

ThrowNew ==
    \E resolver \in ThrowingResolvers :
        /\ Cardinality(roots) < MaxThrowers
        /\ UserCalls + Len(resolver.calls) <= MaxThrowerCalls
        /\ Commit([constructor(cur, resolver) EXCEPT
                      !.roots = @ \cup {Len(futures) + 1},
                      !.userCalls[Len(futures) + 1] = Len(resolver.calls)])

ThrowResolve ==
    \E f \in roots :
        /\ UserCalls < MaxThrowerCalls
        /\ Commit([resolve(cur, f, NextPlain) EXCEPT !.userCalls[f] = @ + 1])

ThrowReject ==
    \E f \in roots :
        /\ UserCalls < MaxThrowerCalls
        /\ Commit([reject(cur, f, NextPlain) EXCEPT !.userCalls[f] = @ + 1])

NextConstruct ==
    \/ ThrowNew
    \/ ThrowResolve
    \/ ThrowReject
    \/ RunTimer

SpecConstruct == Init /\ [][NextConstruct]_vars

----------------------------------------------------------------------------
\* Settlement with futures: user code makes futures and calls their
\* capabilities with plain values or with its futures.
AdoptNew ==
    /\ Cardinality(roots) < MaxChain
    /\ Commit([constructor(cur, [k |-> "user", calls |-> <<>>,
                                 throws |-> Undefined])
                  EXCEPT !.roots = @ \cup {Len(futures) + 1}])

AdoptValues == {NextPlain} \cup {FutureRef(g) : g \in roots}

AdoptResolve ==
    \E f \in roots, value \in AdoptValues :
        /\ UserCalls < MaxChainCalls
        /\ Commit([resolve(cur, f, value) EXCEPT !.userCalls[f] = @ + 1])

AdoptReject ==
    \E f \in roots, error \in AdoptValues :
        /\ UserCalls < MaxChainCalls
        /\ Commit([reject(cur, f, error) EXCEPT !.userCalls[f] = @ + 1])

NextAdopt ==
    \/ AdoptNew
    \/ AdoptResolve
    \/ AdoptReject
    \/ RunTimer

SpecAdopt == Init /\ [][NextAdopt]_vars

----------------------------------------------------------------------------
\* Vocabulary of the properties.
Settled(f) == futures[f].status # PENDING
Quiescent == timers = <<>>
IsFuture(val) == val.t = "future"
Handlers == 1..Len(registered)
SameOutcome(f, g) ==
    /\ futures[f].status = futures[g].status
    /\ futures[f].value = futures[g].value
\* The places of delivered[f] where handler h was called.
Deliveries(f, h) == {i \in DOMAIN delivered[f] : delivered[f][i].h = h}
Min(S) == CHOOSE i \in S : \A j \in S : i <= j

\* C1: the status of a future changes at most once, from PENDING to
\* FULFILLED or REJECTED, and once it is not PENDING neither the status nor
\* the value changes again.
C1_SettlesOnce ==
    [][\A f \in Ids :
          /\ futures'[f].status \in {futures[f].status, FULFILLED, REJECTED}
          /\ Settled(f) =>
                /\ futures'[f].status = futures[f].status
                /\ futures'[f].value = futures[f].value]_vars

\* C1 witness: a settled future whose later resolve/reject call has run.
C1_Witness ==
    \E f \in Ids : Settled(f) /\ Len(calls[f]) >= 2 /\ Quiescent

\* C2: of the calls of a future's resolve/reject only the first has an
\* effect: a settled future has the status and value the first call
\* determines (those of the call for a plain value, those of the future
\* passed for a future).
C2_FirstCallDecides ==
    \A f \in roots :
        Settled(f) =>
            LET first == calls[f][1]
            IN  IF IsFuture(first.value)
                THEN Settled(first.value.v) /\ SameOutcome(f, first.value.v)
                ELSE /\ futures[f].status = first.status
                     /\ futures[f].value = first.value

\* C3: a call of resolve/reject on a PENDING future changes nothing the
\* turn can observe: the future does not leave PENDING, and none of its
\* handlers is called, before the turn of the call has ended.
C3_SettlementDeferred ==
    \A f \in Ids :
        /\ settled[f] # "in the turn of a call"
        /\ \A i \in DOMAIN delivered[f] : ~delivered[f][i].afterCall

\* C3 witness: resolve/reject was called on a future with a queued handler,
\* the turn of the call is over, and the future is still PENDING.
C3_Witness ==
    \E f \in Ids :
        /\ calls[f] # <<>>
        /\ futures[f].status = PENDING
        /\ futures[f].handlers # <<>>
        /\ \E i \in DOMAIN timers : timers[i].f = f /\ ~IsFuture(timers[i].value)

\* C4: no handler pair is delivered more than once.
C4_DeliveredAtMostOnce ==
    \A f \in Ids : \A h \in Handlers : Cardinality(Deliveries(f, h)) <= 1

\* C5: no handler is dropped: a handler registered on a future that is
\* still PENDING waits in its queue, and a handler registered on a future
\* that has settled has been called with the future's status and value.
C5_NoHandlerDropped ==
    \A h \in Handlers :
        LET f == registered[h].parent
        IN  IF Settled(f)
            THEN \E i \in Deliveries(f, h) :
                    /\ delivered[f][i].status = futures[f].status
                    /\ delivered[f][i].arg = futures[f].value
            ELSE \E i \in DOMAIN futures[f].handlers : futures[f].handlers[i] = h

\* C5 witness: one future has delivered a handler registered before it
\* settled and a handler registered after.
C5_Witness ==
    \E h1, h2 \in Handlers :
        /\ registered[h1].parent = registered[h2].parent
        /\ registered[h1].pending /\ ~registered[h2].pending
        /\ Deliveries(registered[h1].parent, h1) # {}
        /\ Deliveries(registered[h1].parent, h2) # {}

\* C6: handlers registered on a future while it is PENDING are called in
\* the order of their registration when the future settles.
C6_RegistrationOrder ==
    \A h1, h2 \in Handlers :
        LET f == registered[h1].parent
        IN  (/\ h1 < h2
             /\ registered[h2].parent = f
             /\ registered[h1].pending /\ registered[h2].pending
             /\ Settled(f))
            => /\ Deliveries(f, h1) # {} /\ Deliveries(f, h2) # {}
               /\ Min(Deliveries(f, h1)) < Min(Deliveries(f, h2))

\* C6 witness: a future that settled with two handlers in its queue.
C6_Witness ==
    \E h1, h2 \in Handlers :
        /\ h1 < h2
        /\ registered[h1].parent = registered[h2].parent
        /\ registered[h1].pending /\ registered[h2].pending
        /\ Settled(registered[h1].parent)

\* C7: a callback passed to then/catch never runs in the turn that
\* registered it.
C7_NeverInRegisteringTurn ==
    \A f \in Ids : \A i \in DOMAIN delivered[f] : ~delivered[f][i].sameTurn

\* The future at the end of the chain of adoptions that starts at f: f was
\* settled by one call of user code, with a future, and so on.
RECURSIVE Innermost(_, _)
Innermost(f, fuel) ==
    IF fuel > 0 /\ f \in roots /\ userCalls[f] = 1 /\ IsFuture(calls[f][1].value)
    THEN Innermost(calls[f][1].value.v, fuel - 1)
    ELSE f

\* C8: a future settled only with a future, which is settled only with a
\* future, and so on, stays PENDING until the innermost future settles, and
\* then ends with the status and value of the innermost future.
C8_Flattening ==
    \A f \in roots :
        LET g == Innermost(f, MaxChain)
        IN  g # f =>
                /\ Settled(f) => Settled(g) /\ SameOutcome(f, g)
                /\ Settled(f) => ~IsFuture(futures[f].value)
                /\ Settled(g) /\ Quiescent => Settled(f)

\* C8 witness: a chain of two adoptions that has settled.
C8_Witness ==
    \E f \in roots :
        LET g == Innermost(f, MaxChain)
        IN  /\ g # f
            /\ calls[f][1].value.v # g
            /\ Settled(f)

\* C9: when the parent is FULFILLED, the child of then(onFulfill) ends
\* FULFILLED with what onFulfill returns, REJECTED with what onFulfill
\* throws, and with the outcome of the future onFulfill returns.
C9_ChildOfFulfilled ==
    \A h \in Handlers :
        LET hd == registered[h]
            cb == hd.onFulfill
        IN  (futures[hd.parent].status = FULFILLED /\ cb.k # "none") =>
              CASE cb.k = "throw" ->
                     /\ Settled(hd.child) =>
                          /\ futures[hd.child].status = REJECTED
                          /\ futures[hd.child].value = cb.x
                     /\ Quiescent => Settled(hd.child)
                [] IsFuture(cb.x) ->
                     /\ Settled(hd.child) =>
                          Settled(cb.x.v) /\ SameOutcome(hd.child, cb.x.v)
                     /\ Settled(cb.x.v) /\ Quiescent => Settled(hd.child)
                [] OTHER ->
                     /\ Settled(hd.child) =>
                          /\ futures[hd.child].status = FULFILLED
                          /\ futures[hd.child].value = cb.x
                     /\ Quiescent => Settled(hd.child)

\* C9 witness: a child REJECTED by the throw of onFulfill and a child that
\* ended with the outcome of the future onFulfill returned.
C9_Witness ==
    \E h1, h2 \in Handlers :
        /\ registered[h1].onFulfill.k = "throw"
        /\ futures[registered[h1].parent].status = FULFILLED
        /\ Settled(registered[h1].child)
        /\ registered[h2].onFulfill.k = "return"
        /\ IsFuture(registered[h2].onFulfill.x)
        /\ futures[registered[h2].parent].status = FULFILLED
        /\ Settled(registered[h2].child)

\* C10: without onFulfill the child of a FULFILLED parent ends FULFILLED
\* with the parent's value; without onReject the child of a REJECTED parent
\* ends REJECTED with the parent's reason.
C10_PassThrough ==
    \A h \in Handlers :
        LET hd == registered[h]
            missing == IF futures[hd.parent].status = FULFILLED
                       THEN hd.onFulfill.k = "none"
                       ELSE hd.onReject.k = "none"
        IN  (Settled(hd.parent) /\ missing) =>
                /\ Settled(hd.child) => SameOutcome(hd.child, hd.parent)
                /\ Quiescent => Settled(hd.child)

\* C10 witness: a child REJECTED through a then without onReject.
C10_Witness ==
    \E h \in Handlers :
        /\ registered[h].onReject.k = "none"
        /\ futures[registered[h].parent].status = REJECTED
        /\ futures[registered[h].child].status = REJECTED

\* What a callback hands back to the handler that called it: the value it
\* returns or throws.
Outcome(cb) == IF cb.k \in {"return", "throw", "register"} THEN cb.x
               ELSE Undefined

\* C11 as stated: the child of a REJECTED parent whose then was given an
\* onReject callback is never FULFILLED: once settled it is REJECTED, with
\* what onReject returned or threw, whatever onReject returns (a future
\* included).
C11_AlwaysRejected ==
    \A h \in Handlers :
        LET hd == registered[h]
        IN  (futures[hd.parent].status = REJECTED /\ hd.onReject.k # "none"
               /\ Settled(hd.child)) =>
                /\ futures[hd.child].status = REJECTED
                /\ ~IsFuture(Outcome(hd.onReject)) =>
                       futures[hd.child].value = Outcome(hd.onReject)

\* C11 amended: the child of a REJECTED parent whose then was given an
\* onReject callback ends REJECTED with what onReject returned or threw
\* when that is not a future; when onReject returns a future the child
\* ends with that future's outcome, FULFILLED if the future is FULFILLED.
C11_ChildOfRejected ==
    \A h \in Handlers :
        LET hd == registered[h]
            x == Outcome(hd.onReject)
        IN  (futures[hd.parent].status = REJECTED /\ hd.onReject.k # "none") =>
              IF IsFuture(x)
              THEN /\ Settled(hd.child) =>
                        Settled(x.v) /\ SameOutcome(hd.child, x.v)
                   /\ Settled(x.v) /\ Quiescent => Settled(hd.child)
              ELSE /\ Settled(hd.child) =>
                        /\ futures[hd.child].status = REJECTED
                        /\ futures[hd.child].value = x
                   /\ Quiescent => Settled(hd.child)

\* C11 witness: a child REJECTED with the plain value onReject returned,
\* and a child FULFILLED through the future onReject returned.
C11_Witness ==
    \E h1, h2 \in Handlers :
        /\ registered[h1].onReject.k = "return"
        /\ ~IsFuture(registered[h1].onReject.x)
        /\ futures[registered[h1].parent].status = REJECTED
        /\ futures[registered[h1].child].status = REJECTED
        /\ registered[h2].onReject.k = "return"
        /\ IsFuture(registered[h2].onReject.x)
        /\ futures[registered[h2].parent].status = REJECTED
        /\ futures[registered[h2].child].status = FULFILLED

\* The call reject(e) the constructor makes when the resolver throws e.
RejectCall(e) == [value |-> e, status |-> REJECTED]

\* C12 as stated: a future whose resolver threw e ends REJECTED with e,
\* whatever the resolver called before throwing.
C12_ThrowAlwaysRejects ==
    \A f \in Ids :
        (built[f].throws # Undefined /\ Settled(f)) =>
            /\ futures[f].status = REJECTED
            /\ futures[f].value = built[f].throws

\* C12 amended: the throw of e by the resolver is a call reject(e) made
\* at the point of the throw, after at most one earlier call here: the
\* future ends with the outcome of the first call made on it, so it ends
\* REJECTED with e when the resolver threw before any call, and with the
\* outcome of the earlier call of plain value otherwise.
C12_ThrowRejects ==
    \A f \in Ids :
        built[f].throws # Undefined =>
            LET e == built[f].throws
            IN  /\ \E i \in {1, 2} \cap DOMAIN calls[f] :
                       /\ calls[f][i] = RejectCall(e)
                       /\ \A j \in 1..(i - 1) : calls[f][j] # RejectCall(e)
                /\ Settled(f) =>
                       /\ futures[f].status = calls[f][1].status
                       /\ futures[f].value = calls[f][1].value
                /\ Quiescent => Settled(f)

\* C12 witness: a future REJECTED with what its resolver threw, and a
\* future FULFILLED by the call its resolver made before throwing.
C12_Witness ==
    \E f, g \in Ids :
        /\ built[f].throws = Thrown
        /\ calls[f][1] = RejectCall(Thrown)
        /\ futures[f].status = REJECTED
        /\ futures[f].value = Thrown
        /\ built[g].throws = Thrown
        /\ calls[g][1].status = FULFILLED
        /\ futures[g].status = FULFILLED

\* The futures passed to the call of all() or race() that made a, and the
\* handlers that call registered on them.
Inputs(a) == {built[a].futuresArr[i] : i \in DOMAIN built[a].futuresArr}
HandlersOf(a) ==
    {h \in Handlers : /\ registered[h].parent \in Inputs(a)
                      /\ registered[h].onFulfill \in {ResolveOf(a), PushFor(a)}}
PendingAtCall(a) == \A h \in HandlersOf(a) : registered[h].pending

\* User code's k-th call of a capability carries the plain value k and
\* timers run in the order of the calls: of two settled futures of user
\* code the one with the smaller value left PENDING first.
SettledBefore(x, y) == futures[x].value.v <= futures[y].value.v
FirstSettled(S) ==
    CHOOSE x \in S : Settled(x) /\ \A y \in S : Settled(y) => SettledBefore(x, y)

\* C13: race settles with the outcome of the first input to settle: when
\* the inputs were PENDING at the call of race and the aggregate has
\* settled, it has the status and value of the input that left PENDING
\* before every other, be that FULFILLED or REJECTED.
C13_FirstInputWins ==
    \A a \in Ids :
        (built[a].k = "race" /\ PendingAtCall(a) /\ Settled(a)) =>
            /\ \E x \in Inputs(a) : Settled(x)
            /\ SameOutcome(a, FirstSettled(Inputs(a)))

\* The aggregates made by all() with at least one input.
Alls == {a \in Ids : built[a].k = "all" /\ built[a].futuresArr # <<>>}
RejectedInputs(a) == {x \in Inputs(a) : futures[x].status = REJECTED}

\* C14, for inputs that are PENDING at the call of all(): the aggregate of
\* all() over a non-empty array is not FULFILLED before every input is,
\* and once every input is FULFILLED it ends FULFILLED with the array
\* results holding one value per input, in the order in which the inputs
\* fulfilled.
C14_CompletionOrder ==
    \A a \in Alls :
        PendingAtCall(a) =>
            /\ futures[a].status = FULFILLED =>
                  /\ \A x \in Inputs(a) : futures[x].status = FULFILLED
                  /\ futures[a].value = ArrayRef(a)
                  /\ Len(results[a]) = Len(built[a].futuresArr)
                  /\ \A p, q \in DOMAIN results[a] :
                         p < q => results[a][p].v < results[a][q].v
            /\ (Quiescent /\ \A x \in Inputs(a) : futures[x].status = FULFILLED)
                  => futures[a].status = FULFILLED

\* C15, for inputs that are PENDING at the call of all(): when an input is
\* REJECTED the aggregate is never FULFILLED; it ends REJECTED with the
\* reason of the input that rejected first.
C15_FirstRejectionWins ==
    \A a \in Alls :
        (PendingAtCall(a) /\ RejectedInputs(a) # {}) =>
            /\ Settled(a) =>
                  /\ futures[a].status = REJECTED
                  /\ futures[a].value =
                         futures[FirstSettled(RejectedInputs(a))].value
            /\ Quiescent => Settled(a)

\* C16: the aggregate of all() over an empty array never settles: no call
\* of resolve or reject is ever made on it, it stays PENDING, and no
\* handler registered on it is ever delivered.
C16_EmptyAllNeverSettles ==
    \A a \in Ids :
        (built[a].k = "all" /\ built[a].futuresArr = <<>>) =>
            /\ calls[a] = <<>>
            /\ futures[a].status = PENDING
            /\ delivered[a] = <<>>
            /\ \A h \in Handlers :
                   registered[h].parent = a =>
                       /\ \E i \in DOMAIN futures[a].handlers :
                              futures[a].handlers[i] = h
                       /\ futures[registered[h].child].status = PENDING

\* C16 witness: an aggregate of all() over an empty array with a handler
\* waiting on it, when no timer is left and another future has settled.
C16_Witness ==
    \E a \in Ids :
        /\ built[a].k = "all"
        /\ built[a].futuresArr = <<>>
        /\ futures[a].handlers # <<>>
        /\ Quiescent
        /\ \E f \in roots : Settled(f)

\* C17 as stated: the value of a future is undefined exactly while the
\* future is PENDING, and the value of a settled future is never a future.
C17_UnsetExactlyWhilePending ==
    \A f \in Ids :
        /\ futures[f].status = PENDING <=> futures[f].value = Undefined
        /\ ~IsFuture(futures[f].value)

\* C17 amended: the value of a PENDING future is undefined, and the value
\* of a future is never a future; a settled future holds the value it was
\* settled with, which can be undefined.
C17_PendingUnsetNoFutureStored ==
    \A f \in Ids :
        /\ futures[f].status = PENDING => futures[f].value = Undefined
        /\ ~IsFuture(futures[f].value)

\* C17 witness: a future settled through a call of reject that passed a
\* future, and a future FULFILLED with undefined.
C17_Witness ==
    \E f, g \in Ids :
        /\ f \in roots
        /\ calls[f] # <<>>
        /\ calls[f][1].status = REJECTED
        /\ IsFuture(calls[f][1].value)
        /\ Settled(f)
        /\ futures[g].status = FULFILLED
        /\ futures[g].value = Undefined

\* C18: the child that then or catch returns leaves PENDING only after the
\* future it was called on has: in every step, a child that is settled
\* after the step has a parent that was settled before the step, so the
\* child settles in a later turn than its parent, and never if its parent
\* never settles.
C18_ChildAfterParent ==
    [][\A h \in 1..Len(registered') :
          futures'[registered'[h].child].status # PENDING =>
              /\ registered'[h].parent \in Ids
              /\ futures[registered'[h].parent].status # PENDING]_vars

\* C18 witness: a settled child whose handler was registered while its
\* parent was PENDING.
C18_Witness ==
    \E h \in Handlers :
        /\ registered[h].pending
        /\ Settled(registered[h].child)

\* The only call user code made on f passed a future.
OnlyCallPassesFuture(f) ==
    f \in roots /\ userCalls[f] = 1 /\ IsFuture(calls[f][1].value)

\* From f, following at most fuel such calls, the future g is reached.
RECURSIVE Reaches(_, _, _)
Reaches(f, g, fuel) ==
    /\ fuel > 0
    /\ OnlyCallPassesFuture(f)
    /\ \/ calls[f][1].value.v = g
       \/ Reaches(calls[f][1].value.v, g, fuel - 1)

\* C19: a future whose only call of resolve or reject passed the future
\* itself, or a future from which such calls lead back to it, stays
\* PENDING, and none of its handlers is ever delivered.
C19_SelfResolutionNeverSettles ==
    \A f \in roots :
        Reaches(f, f, Cardinality(roots)) =>
            /\ futures[f].status = PENDING
            /\ delivered[f] = <<>>

\* C19 witness: two futures each settled with the other, and a future
\* settled with itself, each with a handler waiting, when no timer is left.
C19_Witness ==
    \E f, g, e \in roots :
        /\ f # g
        /\ OnlyCallPassesFuture(f) /\ calls[f][1].value.v = g
        /\ OnlyCallPassesFuture(g) /\ calls[g][1].value.v = f
        /\ OnlyCallPassesFuture(e) /\ calls[e][1].value.v = e
        /\ futures[f].handlers # <<>>
        /\ futures[g].handlers # <<>>
        /\ futures[e].handlers # <<>>
        /\ Quiescent

\* C20: at the end of every turn the array handlers of a settled future
\* is empty.
C20_SettledQueueEmpty ==
    \A f \in Ids : Settled(f) => futures[f].handlers = <<>>

\* C20 witness: a settled future that had a handler waiting when it
\* settled and another registered after it had settled.
C20_Witness ==
    \E f \in Ids : \E h1, h2 \in Handlers :
        /\ Settled(f)
        /\ registered[h1].parent = f
        /\ registered[h1].pending
        /\ registered[h2].parent = f
        /\ ~registered[h2].pending

====
